---- MODULE Spec2Model ----
(***************************************************************************)
(* Model of web3/api/airdrop.js: the airdrop HTTP handler.                 *)
(*                                                                         *)
(* Each request runs the handler body step by step; two requests may be    *)
(* in flight at once and interleave at the handler's await points.  The    *)
(* chain (sender token balance, recipient token accounts) is shared; it    *)
(* executes a submitted transaction atomically.  Strings the code searches *)
(* or parses are sequences: error messages are sequences of words, the     *)
(* environment values are sequences of characters.                         *)
(***************************************************************************)
EXTENDS Integers, Sequences, FiniteSets, TLC

VARIABLES env, chain, req, pc, local, calls, responses, escaped, sendOutcome

vars == <<env, chain, req, pc, local, calls, responses, escaped, sendOutcome>>

(* ---------------- bounds and program constants ---------------- *)

\* largest small sender balance (in whole tokens) the chain may start with
MaxBalance == 4

\* parseInt(process.env.TOKEN_AMOUNT || '25000')
DefaultAmount == 25000

\* tokenAmount * Math.pow(10, 9)
TransferExponent == 9

\* the requests in flight
Requests == {"r1", "r2"}

(* ---------------- values ---------------- *)

Unset == [set |-> FALSE, val |-> <<>>]
EnvStr(s) == [set |-> TRUE, val |-> s]

\* JavaScript truthiness of a process.env entry: undefined and '' are falsy
Truthy(v) == v.set /\ v.val # <<>>

Digits == <<"0", "1", "2", "3", "4", "5", "6", "7", "8", "9">>
IsDigit(c) == \E d \in 1..10 : Digits[d] = c
DigitVal(c) == (CHOOSE d \in 1..10 : Digits[d] = c) - 1
IsSpace(c) == c = " "

NaN == [nan |-> TRUE, val |-> 0]
Num(n) == [nan |-> FALSE, val |-> n]

RECURSIVE SkipSpaces(_)
SkipSpaces(s) == IF s # <<>> /\ IsSpace(Head(s)) THEN SkipSpaces(Tail(s)) ELSE s

RECURSIVE ParseDigits(_, _)
ParseDigits(s, acc) ==
  IF s # <<>> /\ IsDigit(Head(s))
  THEN ParseDigits(Tail(s), acc * 10 + DigitVal(Head(s)))
  ELSE acc

\* parseInt(string): leading white space skipped, an optional sign, then the
\* longest prefix of decimal digits; NaN when there is no digit
parseInt(str) ==
  LET t == SkipSpaces(str)
      neg == t # <<>> /\ Head(t) = "-"
      u == IF t # <<>> /\ Head(t) \in {"-", "+"} THEN Tail(t) ELSE t
  IN IF u = <<>> \/ ~IsDigit(Head(u)) THEN NaN
     ELSE Num(IF neg THEN 0 - ParseDigits(u, 0) ELSE ParseDigits(u, 0))

\* a < b on JavaScript numbers: any comparison with NaN is false
JsLess(a, b) == ~a.nan /\ ~b.nan /\ a.val < b.val

\* String.prototype.includes on word sequences
Includes(msg, sub) ==
  \E k \in 0..(Len(msg) - Len(sub)) : SubSeq(msg, k + 1, k + Len(sub)) = sub

\* String.prototype.startsWith
StartsWith(s, c) == s # <<>> /\ Head(s) = c

(* ---------------- thrown values ---------------- *)

Err(msg) == [hasMessage |-> TRUE, message |-> msg]
\* a rejection value that carries no message property
NoMessageErr == [hasMessage |-> FALSE, message |-> <<>>]
NoErr == [hasMessage |-> FALSE, message |-> <<"none">>]

AlreadyInUse == <<"already", "in", "use">>
AccountInUseErr == Err(<<"Allocate:", "account", "already", "in", "use">>)
InsufficientFundsErr == Err(<<"custom", "program", "error:", "0x1">>)
InvalidAccountErr == Err(<<"invalid", "account", "data">>)
NetworkErr == Err(<<"fetch", "failed">>)
EmptyMessageErr == Err(<<>>)
DestructureErr == Err(<<"Cannot", "destructure", "property", "walletAddress">>)
InvalidPublicKeyErr == Err(<<"Invalid", "public", "key", "input">>)
NotIntegerErr == Err(<<"not", "an", "integer">>)

\* what a failing RPC call may reject with
RpcErrors == {NetworkErr, EmptyMessageErr, NoMessageErr}

(* ---------------- response bodies ---------------- *)

MethodNotAllowed == <<"Method", "not", "allowed">>
WalletRequired == <<"Wallet", "address", "is", "required">>
InvalidFormat == <<"Invalid", "wallet", "address", "format">>
ConfigError == <<"Server", "configuration", "error">>
InvalidKeyFormat == <<"Invalid", "sender", "private", "key", "format">>
InsufficientBalance == <<"insufficient_token_balance">>
AlreadyClaimed == <<"already_claimed_or_has_balance">>
InternalError == <<"Internal", "server", "error", "during", "airdrop">>

ErrorResponse(status, error) ==
  [status |-> status, error |-> error, success |-> FALSE, amount |-> NaN]
SuccessResponse(amount) ==
  [status |-> 200, error |-> <<>>, success |-> TRUE, amount |-> amount]

(* ---------------- inputs ---------------- *)

\* req.body.walletAddress: the field may be absent, null or a string
WalletUndefined == [kind |-> "undefined", str |-> <<>>]
WalletNull == [kind |-> "null", str |-> <<>>]
WalletStr(s) == [kind |-> "string", str |-> s]

\* !walletAddress
Falsy(w) == w.kind # "string" \/ w.str = <<>>

AddrA == <<"A">>
AddrB == <<"B">>
\* a well-formed address that is not on the curve (a program-derived address)
AddrOffCurve == <<"P">>
MintAddr == <<"M">>
Recipients == {AddrA, AddrB}

WalletInputs ==
  {WalletUndefined, WalletNull, WalletStr(<<>>), WalletStr(<<"0", "O">>),
   WalletStr(AddrA), WalletStr(AddrB), WalletStr(AddrOffCurve)}

NoBody == [present |-> FALSE, walletAddress |-> WalletUndefined]
Body(w) == [present |-> TRUE, walletAddress |-> w]
Bodies == {NoBody} \cup {Body(w) : w \in WalletInputs}
Methods == {"POST", "GET"}

\* startedAfter: the requests already answered when this one arrived
NoRequest == [method |-> "", body |-> NoBody, startedAfter |-> {}]

\* new PublicKey(value) succeeds
PublicKeyParses(s) == s \in {AddrA, AddrB, AddrOffCurve, MintAddr}

\* getAssociatedTokenAddress(mint, owner) rejects an off-curve owner
OwnerOnCurve(s) == s # AddrOffCurve

KeyJsonOk == <<"[", "7", "]">>
KeyJsonTruncated == <<"[", "7">>
KeyJsonShort == <<"[", "]">>
KeyBase58Ok == <<"k">>
KeyBase58Bad == <<"0">>

\* JSON.parse(s) returns an array
JsonParses(s) == s \in {KeyJsonOk, KeyJsonShort}
\* bs58.decode(s) succeeds
Base58Decodes(s) == s \in {KeyBase58Ok}
\* Keypair.fromSecretKey accepts the decoded bytes (64 of them)
SecretKeySizeOk(s) == s \in {KeyJsonOk, KeyBase58Ok}

AmountInputs ==
  {Unset, EnvStr(<<>>), EnvStr(<<"2">>), EnvStr(<<" ", "3", "x">>), EnvStr(<<"x">>)}

MakeEnv(k, m, u, a) ==
  [SENDER_PRIVATE_KEY |-> k, TOKEN_MINT_ADDRESS |-> m, RPC_URL |-> u, TOKEN_AMOUNT |-> a]

CompleteEnvs ==
  {MakeEnv(EnvStr(k), EnvStr(MintAddr), EnvStr(<<"u">>), a) :
     k \in {KeyJsonOk, KeyBase58Ok}, a \in AmountInputs}

\* every pattern of absent or empty required values
AbsentEnvs ==
  {MakeEnv(k, m, u, Unset) :
     k \in {Unset, EnvStr(KeyJsonOk)},
     m \in {Unset, EnvStr(<<>>), EnvStr(MintAddr)},
     u \in {Unset, EnvStr(<<"u">>)}}

\* all three present, one of them malformed
MalformedEnvs ==
  {MakeEnv(EnvStr(k), EnvStr(MintAddr), EnvStr(<<"u">>), Unset) :
     k \in {KeyJsonTruncated, KeyJsonShort, KeyBase58Bad}}
  \cup {MakeEnv(EnvStr(KeyJsonOk), EnvStr(<<"0">>), EnvStr(<<"u">>), Unset)}

Envs == CompleteEnvs \cup AbsentEnvs \cup MalformedEnvs

InitBalances == (0..MaxBalance) \cup {DefaultAmount, 2 * DefaultAmount}

Chains ==
  {[balance |-> b, accounts |-> acc, received |-> [r \in Recipients |-> 0]] :
     b \in InitBalances, acc \in {{}, {AddrA}}}

(* ---------------- request-local state ---------------- *)

\* accountExisted: whether the recipient's token account was on the chain
\* when getAccountInfo was called
NoLocal ==
  [recipient |-> <<>>, tokenAmount |-> NaN, senderBalance |-> NaN,
   accountInfo |-> "unset", accountExisted |-> FALSE,
   transaction |-> <<>>, error |-> NoErr]

CreateInstruction(owner) ==
  [type |-> "createAssociatedTokenAccount", owner |-> owner,
   amount |-> NaN, exponent |-> 0]
TransferInstruction(owner, amount) ==
  [type |-> "transfer", owner |-> owner, amount |-> amount,
   exponent |-> TransferExponent]

Respond(i, r) == responses' = [responses EXCEPT ![i] = Append(@, r)]
Call(i, name) == calls' = [calls EXCEPT ![i] = Append(@, name)]
Goto(i, where) == pc' = [pc EXCEPT ![i] = where]
Throw(i, e) ==
  /\ pc' = [pc EXCEPT ![i] = "catch"]
  /\ local' = [local EXCEPT ![i].error = e]

(* ---------------- the chain ---------------- *)

Rejected(c, e, why) == [ok |-> FALSE, chain |-> c, err |-> e, why |-> why]
Applied(c) == [ok |-> TRUE, chain |-> c, err |-> NoErr, why |-> "confirmed"]

\* one instruction against the chain state
ApplyInstruction(c, ins) ==
  IF ins.type = "createAssociatedTokenAccount"
  THEN IF ins.owner \in c.accounts
       THEN Rejected(c, AccountInUseErr, "account_exists")
       ELSE Applied([c EXCEPT !.accounts = @ \cup {ins.owner}])
  ELSE IF ins.owner \notin c.accounts
       THEN Rejected(c, InvalidAccountErr, "invalid_account")
       ELSE IF c.balance < ins.amount.val
            THEN Rejected(c, InsufficientFundsErr, "insufficient_funds")
            ELSE Applied([c EXCEPT !.balance = @ - ins.amount.val,
                                   !.received[ins.owner] = @ + 1])

\* a transaction takes effect as a whole or not at all
RECURSIVE Execute(_, _, _)
Execute(start, c, instrs) ==
  IF instrs = <<>> THEN Applied(c)
  ELSE LET r == ApplyInstruction(c, Head(instrs))
       IN IF r.ok THEN Execute(start, r.chain, Tail(instrs))
          ELSE Rejected(start, r.err, r.why)

(* ---------------- the handler, step by step ---------------- *)

\* handler(req, res) is called
Invoke(i) ==
  /\ pc[i] = "idle"
  /\ \E m \in Methods, b \in Bodies :
       req' = [req EXCEPT ![i] =
                 [method |-> m, body |-> b,
                  startedAfter |-> {j \in Requests : pc[j] = "done"}]]
  /\ Goto(i, "gate")
  /\ UNCHANGED <<env, chain, local, calls, responses, escaped, sendOutcome>>

\* faulty variant: the gate lets GET through
MethodAllowedAny(m) == m \in {"POST", "GET"}

MethodAllowed(m) == m = "POST"

MethodGate(i) ==
  /\ pc[i] = "gate"
  /\ IF MethodAllowed(req[i].method)
     THEN Goto(i, "input") /\ UNCHANGED responses
     ELSE Goto(i, "done") /\ Respond(i, ErrorResponse(405, MethodNotAllowed))
  /\ UNCHANGED <<env, chain, req, local, calls, escaped, sendOutcome>>

\* const { walletAddress } = req.body; if (!walletAddress) ...
ValidateInput(i) ==
  /\ pc[i] = "input"
  /\ IF ~req[i].body.present
     THEN Throw(i, DestructureErr) /\ UNCHANGED responses
     ELSE IF Falsy(req[i].body.walletAddress)
          THEN /\ Goto(i, "done")
               /\ Respond(i, ErrorResponse(400, WalletRequired))
               /\ UNCHANGED local
          ELSE Goto(i, "address") /\ UNCHANGED <<responses, local>>
  /\ UNCHANGED <<env, chain, req, calls, escaped, sendOutcome>>

\* faulty variant: the catch of the address parser answers 400 but does not return
ParseAddressNoReturn(i) ==
  /\ pc[i] = "address"
  /\ Goto(i, "config")
  /\ local' = [local EXCEPT ![i].recipient = req[i].body.walletAddress.str]
  /\ IF PublicKeyParses(req[i].body.walletAddress.str)
     THEN UNCHANGED responses
     ELSE Respond(i, ErrorResponse(400, InvalidFormat))
  /\ UNCHANGED <<env, chain, req, calls, escaped, sendOutcome>>

ParseAddress(i) ==
  /\ pc[i] = "address"
  /\ IF PublicKeyParses(req[i].body.walletAddress.str)
     THEN /\ Goto(i, "config")
          /\ local' = [local EXCEPT ![i].recipient = req[i].body.walletAddress.str]
          /\ UNCHANGED responses
     ELSE /\ Goto(i, "done")
          /\ Respond(i, ErrorResponse(400, InvalidFormat))
          /\ UNCHANGED local
  /\ UNCHANGED <<env, chain, req, calls, escaped, sendOutcome>>

\* parseInt(process.env.TOKEN_AMOUNT || '25000')
ConfiguredAmount(e) ==
  IF Truthy(e.TOKEN_AMOUNT) THEN parseInt(e.TOKEN_AMOUNT.val) ELSE Num(DefaultAmount)

\* faulty variant: the check forgets the network endpoint
ConfigMissingNoRpc(e) ==
  ~Truthy(e.SENDER_PRIVATE_KEY) \/ ~Truthy(e.TOKEN_MINT_ADDRESS)

ConfigMissing(e) ==
  ~Truthy(e.SENDER_PRIVATE_KEY) \/ ~Truthy(e.TOKEN_MINT_ADDRESS) \/ ~Truthy(e.RPC_URL)

LoadConfig(i) ==
  /\ pc[i] = "config"
  /\ Call(i, "process.env")
  /\ local' = [local EXCEPT ![i].tokenAmount = ConfiguredAmount(env)]
  /\ IF ConfigMissing(env)
     THEN Goto(i, "done") /\ Respond(i, ErrorResponse(500, ConfigError))
     ELSE Goto(i, "credential") /\ UNCHANGED responses
  /\ UNCHANGED <<env, chain, req, escaped, sendOutcome>>

\* the sender key parses: a JSON array when it starts with '[', base58 otherwise
CredentialParses(key) ==
  /\ IF StartsWith(key, "[") THEN JsonParses(key) ELSE Base58Decodes(key)
  /\ SecretKeySizeOk(key)

ParseCredential(i) ==
  /\ pc[i] = "credential"
  /\ IF CredentialParses(env.SENDER_PRIVATE_KEY.val)
     THEN Goto(i, "setup") /\ UNCHANGED responses
     ELSE Goto(i, "done") /\ Respond(i, ErrorResponse(500, InvalidKeyFormat))
  /\ UNCHANGED <<env, chain, req, local, calls, escaped, sendOutcome>>

\* connection, mint key and the two associated token addresses
Setup(i) ==
  /\ pc[i] = "setup"
  /\ IF ~PublicKeyParses(env.TOKEN_MINT_ADDRESS.val)
     THEN Throw(i, InvalidPublicKeyErr)
     ELSE IF ~OwnerOnCurve(local[i].recipient)
          THEN Throw(i, EmptyMessageErr)
          ELSE Goto(i, "balance") /\ UNCHANGED local
  /\ UNCHANGED <<env, chain, req, calls, responses, escaped, sendOutcome>>

\* faulty variant: the comparison is off by one
BalanceTooLowOffByOne(uiAmount, tokenAmount) == JsLess(Num(uiAmount + 1), tokenAmount)

\* senderBalance.value.uiAmount < tokenAmount
BalanceTooLow(uiAmount, tokenAmount) == JsLess(Num(uiAmount), tokenAmount)

CheckBalance(i) ==
  /\ pc[i] = "balance"
  /\ Call(i, "getTokenAccountBalance")
  /\ \/ \E e \in RpcErrors : Throw(i, e) /\ UNCHANGED responses
     \/ /\ local' = [local EXCEPT ![i].senderBalance = Num(chain.balance)]
        /\ IF BalanceTooLow(chain.balance, local[i].tokenAmount)
           THEN Goto(i, "done") /\ Respond(i, ErrorResponse(400, InsufficientBalance))
           ELSE Goto(i, "recipient") /\ UNCHANGED responses
  /\ UNCHANGED <<env, chain, req, escaped, sendOutcome>>

\* faulty variant: a rejection of getAccountInfo is not caught locally
CheckRecipientAborts(i) ==
  /\ pc[i] = "recipient"
  /\ Call(i, "getAccountInfo")
  /\ \/ /\ local' = [local EXCEPT
                      ![i].accountInfo =
                        IF local[i].recipient \in chain.accounts THEN "found" ELSE "null",
                      ![i].accountExisted = local[i].recipient \in chain.accounts]
        /\ Goto(i, "assemble")
     \/ /\ local' = [local EXCEPT
                      ![i].accountInfo = "threw",
                      ![i].accountExisted = local[i].recipient \in chain.accounts,
                      ![i].error = NetworkErr]
        /\ Goto(i, "catch")
  /\ UNCHANGED <<env, chain, req, responses, escaped, sendOutcome>>

\* getAccountInfo(recipientTokenAccount); a rejection is logged and dropped
CheckRecipient(i) ==
  /\ pc[i] = "recipient"
  /\ Call(i, "getAccountInfo")
  /\ \E info \in {IF local[i].recipient \in chain.accounts THEN "found" ELSE "null",
                  "threw"} :
       local' = [local EXCEPT ![i].accountInfo = info,
                              ![i].accountExisted = local[i].recipient \in chain.accounts]
  /\ Goto(i, "assemble")
  /\ UNCHANGED <<env, chain, req, responses, escaped, sendOutcome>>

\* faulty variant: the transfer is added before the account creation
InstructionsTransferFirst(info, recipient, tokenAmount) ==
  <<TransferInstruction(recipient, tokenAmount)>>
    \o (IF info # "found" THEN <<CreateInstruction(recipient)>> ELSE <<>>)

\* the instructions added to the transaction, in order
Instructions(info, recipient, tokenAmount) ==
  (IF info # "found" THEN <<CreateInstruction(recipient)>> ELSE <<>>)
    \o <<TransferInstruction(recipient, tokenAmount)>>

\* createTransferInstruction converts the amount to a BigInt
Assemble(i) ==
  /\ pc[i] = "assemble"
  /\ IF local[i].tokenAmount.nan
     THEN Throw(i, NotIntegerErr)
     ELSE /\ Goto(i, "blockhash")
          /\ local' = [local EXCEPT ![i].transaction =
                         Instructions(local[i].accountInfo, local[i].recipient,
                                      local[i].tokenAmount)]
  /\ UNCHANGED <<env, chain, req, calls, responses, escaped, sendOutcome>>

FetchBlockhash(i) ==
  /\ pc[i] = "blockhash"
  /\ Call(i, "getLatestBlockhash")
  /\ \/ \E e \in RpcErrors : Throw(i, e)
     \/ Goto(i, "submit") /\ UNCHANGED local
  /\ UNCHANGED <<env, chain, req, responses, escaped, sendOutcome>>

\* sendAndConfirmTransaction, then the success response
Submit(i) ==
  /\ pc[i] = "submit"
  /\ Call(i, "sendAndConfirmTransaction")
  /\ \/ /\ \E e \in RpcErrors : Throw(i, e)
        /\ sendOutcome' = [sendOutcome EXCEPT ![i] = "rpc_error"]
        /\ UNCHANGED <<chain, responses>>
     \/ LET r == Execute(chain, chain, local[i].transaction)
        IN /\ chain' = r.chain
           /\ sendOutcome' = [sendOutcome EXCEPT ![i] = r.why]
           /\ IF r.ok
              THEN /\ Goto(i, "done")
                   /\ Respond(i, SuccessResponse(local[i].tokenAmount))
                   /\ UNCHANGED local
              ELSE Throw(i, r.err) /\ UNCHANGED responses
  /\ UNCHANGED <<env, req, escaped>>

\* faulty variant: no error is reclassified
CatchResponseNoReclassify(e) ==
  ErrorResponse(500, IF e.message # <<>> THEN e.message ELSE InternalError)

\* faulty variant: every program error of the chain is reported as already claimed
CatchResponseBroadMatch(e) ==
  IF Includes(e.message, AlreadyInUse) \/ Includes(e.message, <<"program", "error:">>)
  THEN ErrorResponse(400, AlreadyClaimed)
  ELSE ErrorResponse(500, IF e.message # <<>> THEN e.message ELSE InternalError)

\* the body sent by the top-level catch for an error that has a message
CatchResponse(e) ==
  IF Includes(e.message, AlreadyInUse)
  THEN ErrorResponse(400, AlreadyClaimed)
  ELSE ErrorResponse(500, IF e.message # <<>> THEN e.message ELSE InternalError)

\* catch (error): error.message.includes(...) itself throws when the thrown
\* value has no message
Catch(i) ==
  /\ pc[i] = "catch"
  /\ Goto(i, "done")
  /\ IF local[i].error.hasMessage
     THEN Respond(i, CatchResponse(local[i].error)) /\ UNCHANGED escaped
     ELSE escaped' = [escaped EXCEPT ![i] = TRUE] /\ UNCHANGED responses
  /\ UNCHANGED <<env, chain, req, local, calls, sendOutcome>>

(* ---------------- specifications ---------------- *)

InitCommon ==
  /\ chain \in Chains
  /\ req = [i \in Requests |-> NoRequest]
  /\ local = [i \in Requests |-> NoLocal]
  /\ calls = [i \in Requests |-> <<>>]
  /\ responses = [i \in Requests |-> <<>>]
  /\ escaped = [i \in Requests |-> FALSE]
  /\ sendOutcome = [i \in Requests |-> "none"]

Init ==
  /\ env \in Envs
  /\ pc = [i \in Requests |-> "idle"]
  /\ InitCommon

Next ==
  \E i \in Requests :
    \/ Invoke(i)
    \/ MethodGate(i)
    \/ ValidateInput(i)
    \/ ParseAddress(i)
    \/ LoadConfig(i)
    \/ ParseCredential(i)
    \/ Setup(i)
    \/ CheckBalance(i)
    \/ CheckRecipient(i)
    \/ Assemble(i)
    \/ FetchBlockhash(i)
    \/ Submit(i)
    \/ Catch(i)

Spec == Init /\ [][Next]_vars

(* ---------------- vocabulary of the properties ---------------- *)

Answered(i, status, error) == responses[i] = <<ErrorResponse(status, error)>>
Finished(i) == pc[i] = "done"
Post(i) == req[i].method = "POST"
Started(i) == pc[i] \notin {"idle", "gate"}

\* the number of times the request called the named downstream operation
Count(i, name) == Cardinality({k \in 1..Len(calls[i]) : calls[i][k] = name})

\* a process.env entry that is undefined or ''
Absent(v) == ~v.set \/ v.val = <<>>
RequiredAbsent ==
  Absent(env.SENDER_PRIVATE_KEY) \/ Absent(env.TOKEN_MINT_ADDRESS) \/ Absent(env.RPC_URL)

WellFormedAddresses == {AddrA, AddrB, AddrOffCurve}

\* walletAddress is a non-empty string the address parser rejects
MalformedAddress(i) ==
  /\ req[i].body.present
  /\ req[i].body.walletAddress.kind = "string"
  /\ req[i].body.walletAddress.str # <<>>
  /\ req[i].body.walletAddress.str \notin WellFormedAddresses

\* walletAddress is a string the address parser accepts
WellFormedAddress(i) ==
  /\ req[i].body.present
  /\ req[i].body.walletAddress.kind = "string"
  /\ req[i].body.walletAddress.str \in WellFormedAddresses

\* walletAddress absent, null or empty, or no body at all
MissingAddress(i) ==
  \/ ~req[i].body.present
  \/ req[i].body.walletAddress.kind # "string"
  \/ req[i].body.walletAddress.str = <<>>

\* the amount the configuration asks for
ExpectedAmount ==
  IF Absent(env.TOKEN_AMOUNT) THEN 25000
  ELSE IF env.TOKEN_AMOUNT.val = <<"2">> THEN 2
  ELSE IF env.TOKEN_AMOUNT.val = <<" ", "3", "x">> THEN 3
  ELSE 0

TypesOf(tx) == [k \in 1..Len(tx) |-> tx[k].type]
CreateThenTransfer == <<"createAssociatedTokenAccount", "transfer">>
TransferOnly == <<"transfer">>

(* ---------------- C1 ---------------- *)

\* C1: a POST whose walletAddress is a non-empty string the address parser
\* rejects is answered 400 'Invalid wallet address format', and the request
\* makes no downstream call: no configuration read, no balance query, no
\* account query, no blockhash fetch, no submission.
C1_MalformedAddressRejected ==
  \A i \in Requests :
    (Post(i) /\ MalformedAddress(i)) =>
      /\ calls[i] = <<>>
      /\ pc[i] \in {"gate", "input", "address", "done"}
      /\ sendOutcome[i] = "none"
      /\ ~escaped[i]
      /\ Finished(i) => Answered(i, 400, InvalidFormat)

C1_Witness ==
  \E i \in Requests : Post(i) /\ MalformedAddress(i) /\ Finished(i)

(* ---------------- C2 ---------------- *)

\* C2: when the balance query returns a sender balance below the configured
\* amount, the request is answered 400 'insufficient_token_balance' and never
\* reaches the account query, the blockhash fetch or the submission.
C2_InsufficientBalanceRejected ==
  \A i \in Requests :
    (/\ ~local[i].senderBalance.nan
     /\ ~local[i].tokenAmount.nan
     /\ local[i].tokenAmount.val = ExpectedAmount
     /\ local[i].senderBalance.val < ExpectedAmount) =>
      /\ Finished(i)
      /\ Answered(i, 400, InsufficientBalance)
      /\ Count(i, "getAccountInfo") = 0
      /\ Count(i, "getLatestBlockhash") = 0
      /\ Count(i, "sendAndConfirmTransaction") = 0
      /\ sendOutcome[i] = "none"

C2_Witness ==
  \E i \in Requests :
    /\ ~local[i].senderBalance.nan
    /\ local[i].senderBalance.val < ExpectedAmount
    /\ ExpectedAmount > 0
    /\ Finished(i)

(* ---------------- C3 ---------------- *)

\* C3 as stated: with any required configuration value absent, every POST
\* is answered 500 'Server configuration error', whatever its body.
C3_Original ==
  \A i \in Requests :
    (Post(i) /\ RequiredAbsent /\ Finished(i)) => Answered(i, 500, ConfigError)

\* C3 as amended: with any required configuration value absent, a POST whose
\* walletAddress is a string the address parser accepts is answered 500
\* 'Server configuration error' and makes no call beyond the configuration
\* read; the input and address checks come first for every other body.
C3_ConfigErrorAfterValidation ==
  \A i \in Requests :
    (Post(i) /\ RequiredAbsent /\ WellFormedAddress(i)) =>
      /\ pc[i] \in {"gate", "input", "address", "config", "done"}
      /\ Finished(i) =>
           /\ Answered(i, 500, ConfigError)
           /\ calls[i] = <<"process.env">>

C3_Witness ==
  \E i \in Requests :
    Post(i) /\ RequiredAbsent /\ WellFormedAddress(i) /\ Finished(i)

(* ---------------- C4 ---------------- *)

\* C4: a request whose method is not POST is answered exactly 405 'Method not
\* allowed' whatever its body and the configuration, and no later step runs:
\* no validation, no configuration read, no external call.
C4_MethodGate ==
  \A i \in Requests :
    (Started(i) /\ ~Post(i)) =>
      /\ Finished(i)
      /\ Answered(i, 405, MethodNotAllowed)
      /\ calls[i] = <<>>
      /\ local[i] = NoLocal
      /\ ~escaped[i]

C4_Witness ==
  \E i \in Requests :
    Started(i) /\ ~Post(i) /\ WellFormedAddress(i) /\ ~RequiredAbsent

(* ---------------- C5 ---------------- *)

\* C5: a POST that is missing walletAddress (field absent, empty, or no body
\* at all) is answered 400 'Wallet address is required'.
C5_MissingAddressRejected ==
  \A i \in Requests :
    (Post(i) /\ MissingAddress(i) /\ Finished(i)) => Answered(i, 400, WalletRequired)

(* ---------------- C6 ---------------- *)

\* C6 as stated: past all guards, the transaction holds create-account then
\* transfer when the recipient has no token account and transfer only when it
\* has one.
C6_Original ==
  \A i \in Requests :
    pc[i] \in {"blockhash", "submit"} =>
      TypesOf(local[i].transaction) =
        IF local[i].accountExisted THEN TransferOnly ELSE CreateThenTransfer

\* C6 as amended: past all guards, the transaction holds create-account then
\* transfer when the account query returned no account or failed, and transfer
\* only when the query returned an account; the transfer carries the
\* configured amount; once the blockhash is fetched the transaction is
\* submitted exactly once, and on confirmation the answer is 200 with success
\* true and the configured amount (25000 when the setting is unset).
C6_AssemblyAndSuccess ==
  \A i \in Requests :
    /\ pc[i] \in {"blockhash", "submit"} =>
         /\ TypesOf(local[i].transaction) =
              IF local[i].accountInfo = "found" THEN TransferOnly ELSE CreateThenTransfer
         /\ \A k \in 1..Len(local[i].transaction) :
              /\ local[i].transaction[k].owner = req[i].body.walletAddress.str
              /\ local[i].transaction[k].type = "transfer" =>
                   local[i].transaction[k].amount = Num(ExpectedAmount)
         /\ Count(i, "sendAndConfirmTransaction") = 0
    /\ sendOutcome[i] # "none" => Count(i, "sendAndConfirmTransaction") = 1
    /\ Count(i, "sendAndConfirmTransaction") <= 1
    /\ sendOutcome[i] = "confirmed" =>
         /\ Finished(i)
         /\ responses[i] = <<[status |-> 200, error |-> <<>>, success |-> TRUE,
                              amount |-> Num(ExpectedAmount)]>>

C6_Witness ==
  /\ Absent(env.TOKEN_AMOUNT)
  /\ \E i, j \in Requests :
       /\ sendOutcome[i] = "confirmed" /\ sendOutcome[j] = "confirmed"
       /\ TypesOf(local[i].transaction) = CreateThenTransfer
       /\ TypesOf(local[j].transaction) = TransferOnly

(* ---------------- C7 ---------------- *)

\* C7: an exception that reaches the top-level catch produces exactly one
\* response: 400 'already_claimed_or_has_balance' when the message contains
\* 'already in use', otherwise 500 with the raw message, or with 'Internal
\* server error during airdrop' when the error has no message; no exception
\* leaves the handler without a response.
C7_CatchAlwaysResponds ==
  \A i \in Requests :
    (Finished(i) /\ local[i].error # NoErr) =>
      /\ ~escaped[i]
      /\ IF Includes(local[i].error.message, AlreadyInUse)
         THEN Answered(i, 400, AlreadyClaimed)
         ELSE IF local[i].error.hasMessage /\ local[i].error.message # <<>>
              THEN Answered(i, 500, local[i].error.message)
              ELSE Answered(i, 500, InternalError)

(* ---------------- C8 ---------------- *)

\* the request lost a race at submission: the chain rejected its transaction
\* for funds its balance check had seen, or for an account its query had
\* found absent
LostRace(i) ==
  \/ sendOutcome[i] = "insufficient_funds"
  \/ sendOutcome[i] = "account_exists" /\ local[i].accountInfo = "null"

\* C8 as stated: the loser of a race, failed by the chain at submission with
\* account-already-exists or insufficient-funds, is answered 400.
C8_Original ==
  \A i \in Requests :
    (LostRace(i) /\ Finished(i)) =>
      (Len(responses[i]) = 1 /\ responses[i][1].status = 400)

\* C8 as amended: the loser is answered 400 'already_claimed_or_has_balance'
\* when the chain's error message contains 'already in use' (the
\* account-already-exists failure); the loser failed for insufficient funds,
\* whose message does not contain it, is answered 500 with that message.
C8_LoserMappedByMessage ==
  \A i \in Requests :
    (LostRace(i) /\ Finished(i)) =>
      IF sendOutcome[i] = "account_exists"
      THEN Answered(i, 400, AlreadyClaimed)
      ELSE Answered(i, 500, <<"custom", "program", "error:", "0x1">>)

C8_Witness ==
  \E i, j \in Requests :
    /\ i # j
    /\ sendOutcome[j] = "confirmed"
    /\ i \notin req[j].startedAfter /\ j \notin req[i].startedAfter
    /\ LostRace(i) /\ Finished(i)
    /\ sendOutcome[i] = "account_exists"

C8_WitnessFunds ==
  \E i, j \in Requests :
    /\ i # j
    /\ sendOutcome[j] = "confirmed"
    /\ sendOutcome[i] = "insufficient_funds" /\ Finished(i)

(* ---------------- C9 ---------------- *)

Confirmed(r) ==
  {i \in Requests : sendOutcome[i] = "confirmed" /\ local[i].recipient = r}

\* C9: nothing in the handler recognises a repeated request.  A request is
\* answered 'already_claimed_or_has_balance' only when the chain itself
\* rejected its account creation; every transaction the chain confirms is a
\* real transfer answered 200, also the second one to the same recipient.
C9_NoDeduplication ==
  /\ \A i \in Requests :
       /\ Answered(i, 400, AlreadyClaimed) => sendOutcome[i] = "account_exists"
       /\ sendOutcome[i] = "confirmed" =>
            (Len(responses[i]) = 1 /\ responses[i][1].status = 200)
  /\ \A r \in Recipients : chain.received[r] = Cardinality(Confirmed(r))

\* two identical POSTs, the second arriving after the first was answered,
\* both answered 200: the recipient received two transfers
C9_Witness ==
  \E i, j \in Requests :
    /\ i \in req[j].startedAfter
    /\ req[i].method = req[j].method /\ req[i].body = req[j].body
    /\ Len(responses[i]) = 1 /\ responses[i][1].status = 200
    /\ Len(responses[j]) = 1 /\ responses[j][1].status = 200
    /\ chain.received[local[i].recipient] = 2

(* ---------------- C10 ---------------- *)

\* C10: when the account query fails the request goes on as if the account
\* did not exist: no response is sent for the failure, the transaction holds
\* create-account then transfer, and it is submitted once; an error response
\* in such a request comes from a later step.
C10_QueryFailureSwallowed ==
  \A i \in Requests :
    local[i].accountInfo = "threw" =>
      /\ pc[i] = "assemble" => (responses[i] = <<>> /\ local[i].error = NoErr)
      /\ pc[i] \in {"blockhash", "submit"} =>
           /\ TypesOf(local[i].transaction) = CreateThenTransfer
           /\ responses[i] = <<>>
      /\ pc[i] = "submit" => Count(i, "sendAndConfirmTransaction") = 0
      /\ sendOutcome[i] # "none" =>
           /\ Count(i, "sendAndConfirmTransaction") = 1
           /\ TypesOf(local[i].transaction) = CreateThenTransfer
      /\ (Finished(i) /\ ~Answered(i, 200, <<>>) /\ sendOutcome[i] = "none") =>
           (Count(i, "getLatestBlockhash") = 1 \/ local[i].tokenAmount.nan)
      /\ ~escaped[i] => Len(responses[i]) = IF Finished(i) THEN 1 ELSE 0

C10_Witness ==
  \E i \in Requests :
    /\ local[i].accountInfo = "threw"
    /\ sendOutcome[i] = "confirmed"
    /\ TypesOf(local[i].transaction) = CreateThenTransfer

TypeOK ==
  /\ env \in Envs
  /\ \A i \in Requests : Len(responses[i]) <= 1

====
